---- MODULE Spec2Model ----
(***************************************************************************)
(* Verification model of the freqtrade strategy plugins of this            *)
(* repository: the BollingerRatchet "potential order" state machine and    *)
(* entry triggers, the forward-looking regime labeler (set_freqai_targets) *)
(* of the strategy variants, and the BollingerBandsStrategyV9 stop-loss    *)
(* callback.                                                               *)
(*                                                                         *)
(* Prices are small integers (in the labeler, multiples of 0.01).  A       *)
(* missing value (pandas NaN) is the sentinel NaN; every comparison with   *)
(* NaN is FALSE, as in pandas/numpy.                                       *)
(* Indicator columns produced by TA-Lib / pandas_ta (ema, Bollinger bands, *)
(* mfi, atr) are inputs of the model: any number of the price domain or    *)
(* NaN.                                                                    *)
(***************************************************************************)
EXTENDS Integers, Sequences, FiniteSets, TLC

VARIABLES
    pc,     \* position of the host's call sequence in the specification being run
    row,    \* BollingerRatchet, row by row: the dataframe row of the last analysed candle
    df,     \* the dataframe handed to the state loop or to set_freqai_targets
    strategy,   \* the strategy class the host has loaded
    trade,  \* BollingerBandsStrategyV9: the open trade (is_short, stop_loss)
    ret,    \* BollingerBandsStrategyV9: the last return value of custom_stoploss
    atr_in, \* set_freqai_targets: the atr column as the indicator library gave it
    df2,    \* two-run comparisons: the second dataframe
    agree,  \* two-run comparisons: number of leading rows the dataframes share
    metadata,   \* feature callbacks: the metadata dict FreqAI passes (its 'tf')
    fs,   \* archive_logs.py: the command line, the log directory and the archive directory
    merge,   \* merge_trades_with_oracle.py: the dataframes, the loop position and its locals
    executor,   \* executor_logic.py: the SUB socket's queue and the locals of main's loop
    oracle    \* RegimeValidation: the broadcast state, the strategy thread and the periodic thread

vars == <<pc, row, df, strategy, trade, ret, atr_in, df2, agree, metadata, fs, merge, executor, oracle>>

-----------------------------------------------------------------------------
(* Bounds of the model *)

MaxRows == 6        \* rows of the dataframe in the state-loop specification
MaxCandles == 3     \* rows of the dataframe handed to set_freqai_targets
MaxCommon == 3      \* two-run comparison of the labeler: rows the dataframes share
MaxTail == 1        \* two-run comparison of the labeler: rows after the shared ones
Horizon == 2        \* look-ahead horizon of the labeler (24 in every strategy)

-----------------------------------------------------------------------------
(* Missing values and comparisons on float columns *)

NaN == -1

notna(x) == x # NaN

Gt(a, b) == notna(a) /\ notna(b) /\ a > b
Lt(a, b) == notna(a) /\ notna(b) /\ a < b
Ge(a, b) == notna(a) /\ notna(b) /\ a >= b
Le(a, b) == notna(a) /\ notna(b) /\ a <= b

Prices == 1..3
PriceOrNaN == Prices \cup {NaN}

Regimes == {"BEAR", "NEUTRAL", "BULL"}

-----------------------------------------------------------------------------
(* BollingerRatchet: strategy parameters *)

mfi_lower_threshold == 40
mfi_higher_threshold == 60

\* mfi samples: undefined (warm-up), below the lower threshold, on each
\* threshold, above the higher one
MfiValues == {NaN, mfi_lower_threshold - 10, mfi_lower_threshold,
              mfi_higher_threshold, mfi_higher_threshold + 10}

\* One input candle with the indicator and regime columns computed for it.
\* A candle has low <= close <= high; the Bollinger bands are missing
\* together and the lower band is never above the upper band.
Candles ==
    { c \in [low : Prices, close : Prices, high : Prices,
             bb_lower : PriceOrNaN, bb_upper : PriceOrNaN, ema : PriceOrNaN,
             regime : Regimes] :
        /\ c.low <= c.close /\ c.close <= c.high
        /\ (c.bb_lower = NaN) = (c.bb_upper = NaN)
        /\ (notna(c.bb_lower) => c.bb_lower <= c.bb_upper) }

-----------------------------------------------------------------------------
(* BollingerRatchet.populate_indicators: setup and invalidation conditions *)

potential_long_setup(c) ==
    /\ Gt(c.bb_lower, c.ema)
    /\ Gt(c.low, c.ema)
    /\ Lt(c.close, c.bb_lower)
    /\ c.regime # "BEAR"

potential_short_setup(c) ==
    /\ Lt(c.bb_upper, c.ema)
    /\ Lt(c.high, c.ema)
    /\ Gt(c.close, c.bb_upper)
    /\ c.regime # "BULL"

long_invalidation(c) == Lt(c.bb_lower, c.ema) \/ Lt(c.low, c.ema)

\* Mutant: the short side's invalidation copied from the long side unchanged.
short_invalidation_copied(c) == Lt(c.bb_upper, c.ema) \/ Lt(c.high, c.ema)

short_invalidation(c) == Gt(c.bb_upper, c.ema) \/ Gt(c.high, c.ema)

\* Mutant: the state survives an invalidation.
StateStepSticky(setup, prev, invalidation) == setup \/ prev

\* Body of the state loop for one side at one index i >= 1.
StateStep(setup, prev, invalidation) ==
    IF setup THEN TRUE
    ELSE IF prev /\ ~invalidation THEN TRUE
    ELSE FALSE

\* The state column on one row: the column is initialised to False and the
\* loop runs over range(1, len(dataframe)), so the first row keeps False.
StateAt(first, setup, prev, invalidation) ==
    IF first THEN FALSE ELSE StateStep(setup, prev, invalidation)

\* Entry triggers: high.shift(1) / low.shift(1) against this candle's band.
long_trigger(c, high_prev) == Gt(c.high, c.bb_lower) /\ Le(high_prev, c.bb_lower)

short_trigger(c, low_prev) == Lt(c.low, c.bb_upper) /\ Ge(low_prev, c.bb_upper)

\* The row of candle c after populate_indicators, given the row before it
\* (NoRow when c is the first row of the dataframe: shift(1) gives NaN there).
\* mfi is read by populate_entry_trend only; it is drawn there.
AnalyzedRow(c, prev) ==
    [low |-> c.low, high |-> c.high,
     bb_lower |-> c.bb_lower, bb_upper |-> c.bb_upper,
     regime |-> c.regime,
     potential_long |-> potential_long_setup(c),
     potential_short |-> potential_short_setup(c),
     long_invalidation |-> long_invalidation(c),
     short_invalidation |-> short_invalidation(c),
     is_potential_long |->
         StateAt(prev.first, potential_long_setup(c), prev.is_potential_long,
                 long_invalidation(c)),
     is_potential_short |->
         StateAt(prev.first, potential_short_setup(c), prev.is_potential_short,
                 short_invalidation(c)),
     long_trigger |-> long_trigger(c, prev.high),
     short_trigger |-> short_trigger(c, prev.low),
     mfi |-> NaN, enter_long |-> 0, enter_short |-> 0, first |-> FALSE]

\* The empty dataframe: no row yet (first marks that the next row is row 0).
NoRow ==
    [low |-> NaN, high |-> NaN, bb_lower |-> NaN, bb_upper |-> NaN,
     regime |-> "NEUTRAL",
     potential_long |-> FALSE, potential_short |-> FALSE,
     long_invalidation |-> FALSE, short_invalidation |-> FALSE,
     is_potential_long |-> FALSE, is_potential_short |-> FALSE,
     long_trigger |-> FALSE, short_trigger |-> FALSE,
     mfi |-> NaN, enter_long |-> 0, enter_short |-> 0, first |-> TRUE]

(* BollingerRatchet.populate_entry_trend *)

\* enter_long without the mfi filter (a variant that must fail the entry rule)
enter_long_unfiltered(r, mfi) ==
    IF r.is_potential_long /\ r.long_trigger THEN 1 ELSE 0

enter_long(r, mfi) ==
    IF r.is_potential_long /\ r.long_trigger /\ Lt(mfi, mfi_lower_threshold)
    THEN 1 ELSE 0

enter_short(r, mfi) ==
    IF r.is_potential_short /\ r.short_trigger /\ Gt(mfi, mfi_higher_threshold)
    THEN 1 ELSE 0

-----------------------------------------------------------------------------
(* Specification Spec: BollingerRatchet row by row.  The host calls           *)
(* populate_indicators and then populate_entry_trend; both are row-wise       *)
(* except for the state loop and shift(1), which carry the previous row.      *)

Init ==
    /\ pc = "indicators"
    /\ row = NoRow
    /\ df = <<>>
    /\ strategy = "BollingerRatchet"
    /\ trade = <<>>
    /\ ret = <<>>
    /\ atr_in = <<>>
    /\ df2 = <<>>
    /\ agree = 0
    /\ metadata = <<>>
    /\ fs = <<>>
    /\ merge = <<>>
    /\ executor = <<>>
    /\ oracle = <<>>

PopulateIndicators ==
    /\ pc = "indicators"
    /\ \E c \in Candles : row' = AnalyzedRow(c, row)
    /\ pc' = "entry"
    /\ UNCHANGED <<df, strategy, trade, ret, atr_in, df2, agree, metadata, fs, merge, executor, oracle>>

PopulateEntryTrend ==
    /\ pc = "entry"
    /\ \E m \in MfiValues :
        row' = [row EXCEPT !.mfi = m,
                           !.enter_long = enter_long(row, m),
                           !.enter_short = enter_short(row, m)]
    /\ pc' = "indicators"
    /\ UNCHANGED <<df, strategy, trade, ret, atr_in, df2, agree, metadata, fs, merge, executor, oracle>>

Next == PopulateIndicators \/ PopulateEntryTrend

Spec == Init /\ [][Next]_vars

-----------------------------------------------------------------------------
(* Specification SpecLoop: the state loop of populate_indicators over a whole *)
(* dataframe.  The host supplies the candles; the loop reads the setup and    *)
(* invalidation columns computed from them.                                   *)

SetupRow(c) ==
    [potential_long |-> potential_long_setup(c),
     long_invalidation |-> long_invalidation(c),
     potential_short |-> potential_short_setup(c),
     short_invalidation |-> short_invalidation(c),
     is_potential_long |-> FALSE,
     is_potential_short |-> FALSE]

SetupRows == { SetupRow(c) : c \in Candles }

\* is_potential_long at 1-based position k of the table t, as the loop leaves it.
RECURSIVE LongStateColumn(_, _)
LongStateColumn(t, k) ==
    StateAt(k = 1, t[k].potential_long,
            IF k = 1 THEN FALSE ELSE LongStateColumn(t, k - 1),
            t[k].long_invalidation)

RECURSIVE ShortStateColumn(_, _)
ShortStateColumn(t, k) ==
    StateAt(k = 1, t[k].potential_short,
            IF k = 1 THEN FALSE ELSE ShortStateColumn(t, k - 1),
            t[k].short_invalidation)

InitLoop ==
    /\ pc = "load"
    /\ row = <<>>
    /\ df = <<>>
    /\ strategy = "BollingerRatchet"
    /\ trade = <<>>
    /\ ret = <<>>
    /\ atr_in = <<>>
    /\ df2 = <<>>
    /\ agree = 0
    /\ metadata = <<>>
    /\ fs = <<>>
    /\ merge = <<>>
    /\ executor = <<>>
    /\ oracle = <<>>

\* The host appends one more candle to the dataframe it will pass.
LoadCandle ==
    /\ pc = "load"
    /\ Len(df) < MaxRows
    /\ \E r \in SetupRows : df' = Append(df, r)
    /\ UNCHANGED <<pc, row, strategy, trade, ret, atr_in, df2, agree, metadata, fs, merge, executor, oracle>>

\* Lines 209-234: initialise both state columns, then the loop.
RunStateLoop ==
    /\ pc = "load"
    /\ df' = [k \in 1..Len(df) |->
                [df[k] EXCEPT !.is_potential_long = LongStateColumn(df, k),
                              !.is_potential_short = ShortStateColumn(df, k)]]
    /\ pc' = "done"
    /\ UNCHANGED <<row, strategy, trade, ret, atr_in, df2, agree, metadata, fs, merge, executor, oracle>>

NextLoop == LoadCandle \/ RunStateLoop

SpecLoop == InitLoop /\ [][NextLoop]_vars

-----------------------------------------------------------------------------
(* Claims about the BollingerRatchet state machine *)

IsLong(k) == df[k].is_potential_long
IsShort(k) == df[k].is_potential_short

C6_SidesExclusive ==
    pc = "done" => \A k \in 1..Len(df) : ~(IsLong(k) /\ IsShort(k))

\* C6 witness: one dataframe in which each side is active on some candle.
C6_Witness ==
    /\ pc = "done"
    /\ \E i \in 1..Len(df) : \E j \in 1..Len(df) : IsLong(i) /\ IsShort(j)

\* C5: enter_long is never set on a candle whose regime is BEAR, and
\* enter_short is never set on a candle whose regime is BULL.
C5_NoCounterTrendEntry ==
    /\ row.enter_long = 1 => row.regime # "BEAR"
    /\ row.enter_short = 1 => row.regime # "BULL"

\* C7: on candle i >= 1 the long trigger is True exactly when
\* high(i) > bb_lower(i) and high(i-1) <= bb_lower(i-1); the short trigger
\* exactly when low(i) < bb_upper(i) and low(i-1) >= bb_upper(i-1)
\* (stated for candles whose bands are defined on i-1 and on i).
C7_TriggerIsCrossover ==
    [][ ( /\ pc = "indicators" /\ pc' = "entry" /\ ~row.first
          /\ notna(row.bb_lower) /\ notna(row'.bb_lower) ) =>
          /\ row'.long_trigger =
                (Gt(row'.high, row'.bb_lower) /\ Le(row.high, row.bb_lower))
          /\ row'.short_trigger =
                (Lt(row'.low, row'.bb_upper) /\ Ge(row.low, row.bb_upper)) ]_vars

\* C8: if the entry signal of a side fires on candle i, that side's state is
\* INACTIVE on candle i+1 unless the setup condition holds again on i+1.
C8_StateConsumedByEntry ==
    [][ (pc = "indicators" /\ pc' = "entry") =>
          /\ row.enter_long = 1 =>
                (row'.is_potential_long => row'.potential_long)
          /\ row.enter_short = 1 =>
                (row'.is_potential_short => row'.potential_short) ]_vars

-----------------------------------------------------------------------------
(* set_freqai_targets: the forward-looking regime labeler.  The strategies    *)
(* BollingerRatchet, BollingerRatchet_GMODS_11, OracleBlind, OracleSurfer_v6, *)
(* v6_PROD, v8, v10, v10_PROD, v11, v12_PROD, v13_PROD and SniperBacktest     *)
(* share one body (modelled from BollingerRatchet); RegimeValidation fills    *)
(* the atr column and has two more terms in valid_mask.                       *)

LabelPrices == {100, 400, 700}

Ohlc ==
    { c \in [high : LabelPrices, low : LabelPrices, close : LabelPrices] :
        c.low <= c.close /\ c.close <= c.high }

\* The atr column of a dataframe of n rows: missing on the first w rows
\* (warm-up), then a defined value.
AtrValues == {0, 100}
AtrColumns(n) ==
    { [k \in 1..n |-> IF k <= w THEN NaN ELSE a] : w \in 0..n, a \in AtrValues }

SetMax(S) == CHOOSE x \in S : \A y \in S : y <= x
SetMin(S) == CHOOSE x \in S : \A y \in S : x <= y

\* column.shift(-1) at 1-based position k of a table of n rows
shift_minus_1(t, col, k) == IF k < Len(t) THEN t[k + 1][col] ELSE NaN

\* The values a rolling(window=horizon, min_periods=1) aggregate sees at k:
\* the non-missing entries of the shifted column at positions k-horizon+1..k.
RollingWindow(t, col, k) ==
    { shift_minus_1(t, col, j) :
        j \in (IF k - Horizon + 1 > 1 THEN k - Horizon + 1 ELSE 1)..k } \ {NaN}

future_max(t, k) ==
    IF RollingWindow(t, "high", k) = {} THEN NaN
    ELSE SetMax(RollingWindow(t, "high", k))

future_min(t, k) ==
    IF RollingWindow(t, "low", k) = {} THEN NaN
    ELSE SetMin(RollingWindow(t, "low", k))

barrier_threshold(atr) == IF atr = NaN THEN NaN ELSE atr * 2

valid_mask(fmax, fmin, barrier) ==
    notna(fmax) /\ notna(fmin) /\ notna(barrier)

\* RegimeValidation: also notna(close) and barrier_threshold > 0
valid_mask_RegimeValidation(fmax, fmin, barrier, close) ==
    notna(fmax) /\ notna(fmin) /\ notna(barrier) /\ notna(close) /\ barrier > 0

bull_condition(valid, fmax, close, barrier) == valid /\ fmax > close + barrier
bear_condition(valid, fmin, close, barrier) == valid /\ fmin < close - barrier

\* Mutant: the two .loc assignments in the other order (BEAR written last).
regime_class_bear_last(bull, bear) ==
    LET initial == "NEUTRAL"
        after_bull == IF bull THEN "BULL" ELSE initial
    IN  IF bear THEN "BEAR" ELSE after_bull

\* The target column: "NEUTRAL", then .loc[bear_condition] = "BEAR", then
\* .loc[bull_condition] = "BULL".
regime_class(bull, bear) ==
    LET initial == "NEUTRAL"
        after_bear == IF bear THEN "BEAR" ELSE initial
    IN  IF bull THEN "BULL" ELSE after_bear

\* RegimeValidation line 162: atr.ffill().fillna(mean, or 0.01 if all missing)
atr_fallback == 1       \* 0.01 in units of 0.01

RECURSIVE ffill(_, _)
ffill(col, k) ==
    IF notna(col[k]) \/ k = 1 THEN col[k] ELSE ffill(col, k - 1)

RECURSIVE SumDefined(_, _)
SumDefined(col, k) ==
    IF k = 0 THEN 0
    ELSE SumDefined(col, k - 1) + (IF notna(col[k]) THEN col[k] ELSE 0)

CountDefined(col) == Cardinality({ k \in DOMAIN col : notna(col[k]) })

\* Series.mean() skips missing values (the atr columns of the model have sums
\* their number of defined values divides, so the quotient is exact).
mean(col) == SumDefined(col, Len(col)) \div CountDefined(col)

atr_filled(col) ==
    [k \in DOMAIN col |->
        IF notna(ffill(col, k)) THEN ffill(col, k)
        ELSE IF CountDefined(col) > 0 THEN mean(col) ELSE atr_fallback]

\* One labelled row of the dataframe.
LabelledRow(c, atr, fmax, fmin, valid) ==
    [high |-> c.high, low |-> c.low, close |-> c.close,
     atr |-> atr, future_max |-> fmax, future_min |-> fmin,
     regime_class |->
         regime_class(
             bull_condition(valid, fmax, c.close, barrier_threshold(atr)),
             bear_condition(valid, fmin, c.close, barrier_threshold(atr)))]

\* set_freqai_targets of BollingerRatchet and of the strategies sharing its body
set_freqai_targets(t, atr) ==
    [k \in 1..Len(t) |->
        LET fmax == future_max(t, k)
            fmin == future_min(t, k)
        IN  LabelledRow(t[k], atr[k], fmax, fmin,
                        valid_mask(fmax, fmin, barrier_threshold(atr[k])))]

\* set_freqai_targets of RegimeValidation
set_freqai_targets_RegimeValidation(t, atr) ==
    LET filled == atr_filled(atr)
    IN  [k \in 1..Len(t) |->
            LET fmax == future_max(t, k)
                fmin == future_min(t, k)
            IN  LabelledRow(t[k], filled[k], fmax, fmin,
                    valid_mask_RegimeValidation(
                        fmax, fmin, barrier_threshold(filled[k]), t[k].close))]

-----------------------------------------------------------------------------
(* Specification SpecLabel: FreqAI hands a dataframe of candles to the        *)
(* loaded strategy's set_freqai_targets.                                      *)

LabelStrategies == {"BollingerRatchet", "RegimeValidation"}

InitLabel ==
    /\ pc = "load"
    /\ row = <<>>
    /\ df = <<>>
    /\ strategy \in LabelStrategies
    /\ trade = <<>>
    /\ ret = <<>>
    /\ atr_in = <<>>
    /\ df2 = <<>>
    /\ agree = 0
    /\ metadata = <<>>
    /\ fs = <<>>
    /\ merge = <<>>
    /\ executor = <<>>
    /\ oracle = <<>>

LoadOhlc ==
    /\ pc = "load"
    /\ Len(df) < MaxCandles
    /\ \E c \in Ohlc : df' = Append(df, c)
    /\ UNCHANGED <<pc, row, strategy, trade, ret, atr_in, df2, agree, metadata, fs, merge, executor, oracle>>

SetFreqaiTargets ==
    /\ pc = "load"
    /\ strategy = "BollingerRatchet"
    /\ \E atr \in AtrColumns(Len(df)) :
          /\ df' = set_freqai_targets(df, atr)
          /\ atr_in' = atr
    /\ pc' = "targets"
    /\ UNCHANGED <<row, strategy, trade, ret, df2, agree, metadata, fs, merge, executor, oracle>>

SetFreqaiTargetsRegimeValidation ==
    /\ pc = "load"
    /\ strategy = "RegimeValidation"
    /\ \E atr \in AtrColumns(Len(df)) :
          /\ df' = set_freqai_targets_RegimeValidation(df, atr)
          /\ atr_in' = atr
    /\ pc' = "targets"
    /\ UNCHANGED <<row, strategy, trade, ret, df2, agree, metadata, fs, merge, executor, oracle>>

NextLabel == LoadOhlc \/ SetFreqaiTargets \/ SetFreqaiTargetsRegimeValidation

SpecLabel == InitLabel /\ [][NextLabel]_vars

-----------------------------------------------------------------------------
(* Claims about the regime labeler *)

Barrier(k) == barrier_threshold(df[k].atr)

\* Maximum high / minimum low over the candles k+1..k+Horizon.
ForwardMax(k) == SetMax({ df[j].high : j \in (k + 1)..(k + Horizon) })
ForwardMin(k) == SetMin({ df[j].low : j \in (k + 1)..(k + Horizon) })

\* C4: for every candle i whose positions i+1..i+horizon all exist,
\* future_max(i) is the maximum high and future_min(i) the minimum low over
\* exactly the candles i+1..i+horizon.
C4_ForwardWindow ==
    pc = "targets" =>
        \A k \in 1..Len(df) :
            k + Horizon <= Len(df) =>
                /\ df[k].future_max = ForwardMax(k)
                /\ df[k].future_min = ForwardMin(k)

\* C10: each of the last horizon candles of the dataframe is labelled NEUTRAL.
C10_TailIsNeutral ==
    pc = "targets" =>
        \A k \in 1..Len(df) :
            k + Horizon > Len(df) => df[k].regime_class = "NEUTRAL"

\* C11: in every strategy a candle whose atr is undefined (ATR warm-up) is
\* labelled NEUTRAL; no warm-up candle is labelled BULL or BEAR from a
\* substituted or undefined barrier.
C11_WarmupIsNeutral ==
    pc = "targets" =>
        \A k \in 1..Len(df) :
            atr_in[k] = NaN => df[k].regime_class = "NEUTRAL"

DefinedInputs(k) ==
    notna(df[k].future_max) /\ notna(df[k].future_min) /\ notna(Barrier(k))

BullHolds(k) == df[k].future_max > df[k].close + Barrier(k)
BearHolds(k) == df[k].future_min < df[k].close - Barrier(k)

LabelRule(k) ==
    df[k].regime_class =
        IF BullHolds(k) THEN "BULL"
        ELSE IF BearHolds(k) THEN "BEAR"
        ELSE "NEUTRAL"

-----------------------------------------------------------------------------
(* BollingerBandsStrategyV9.custom_stoploss.  A return value is the exact     *)
(* fraction num/den (den > 0); prices are integers.                           *)

stoploss == [num |-> -1, den |-> 10]        \* stoploss = -0.10

min_stop_loss_pct == [num |-> -1, den |-> 20]   \* -0.05

\* max(a, b) on fractions with positive denominators
FracMax(a, b) == IF a.num * b.den >= b.num * a.den THEN a ELSE b

Rates == {80, 100, 120}
StopLevels == {70, 90, 97, 110, 130}
StopLevelOrNaN == StopLevels \cup {NaN}

\* The last candle of a non-empty analyzed dataframe: atr_lower and
\* atr_upper are close -/+ atr * risk_factor, missing together.
LastCandles ==
    { c \in [empty : {FALSE},
             atr_lower : StopLevelOrNaN, atr_upper : StopLevelOrNaN,
             bb_middleband : StopLevelOrNaN] :
        /\ (c.atr_lower = NaN) = (c.atr_upper = NaN)
        /\ (notna(c.atr_lower) => c.atr_lower <= c.atr_upper) }

\* The analyzed dataframe before the first candle is available.
EmptyDataframe ==
    [empty |-> TRUE, atr_lower |-> NaN, atr_upper |-> NaN, bb_middleband |-> NaN]

\* Lines 317-340: the new absolute stop for the trade's side.
new_stop_loss(t, c) ==
    IF t.is_short
    THEN IF c.atr_upper <= c.bb_middleband
         THEN IF c.atr_upper <= t.stop_loss THEN c.atr_upper ELSE t.stop_loss
         ELSE IF c.bb_middleband <= t.stop_loss THEN c.bb_middleband
              ELSE t.stop_loss
    ELSE IF c.atr_lower >= c.bb_middleband
         THEN IF c.atr_lower >= t.stop_loss THEN c.atr_lower ELSE t.stop_loss
         ELSE IF c.bb_middleband >= t.stop_loss THEN c.bb_middleband
              ELSE t.stop_loss

\* Lines 343-346: (new_stop_loss - current_rate) / current_rate
stop_loss_pct(new_stop, current_rate) ==
    [num |-> new_stop - current_rate, den |-> current_rate]

\* c is df.iloc[-1] (EmptyDataframe when df.empty).
custom_stoploss(t, current_rate, c) ==
    IF c.empty THEN stoploss
    ELSE IF ~(notna(c.atr_lower) /\ notna(c.atr_upper)
              /\ notna(c.bb_middleband))
    THEN stoploss
    ELSE FracMax(stop_loss_pct(new_stop_loss(t, c), current_rate),
                 min_stop_loss_pct)

\* The stop price a return value stands for: current_rate * (1 + offset).
ImpliedStop(current_rate, r) == current_rate + (current_rate * r.num) \div r.den

-----------------------------------------------------------------------------
(* Specification SpecStop: the host analyzes candles and calls                *)
(* custom_stoploss repeatedly on one open trade; trade.stop_loss follows the  *)
(* stop implied by the last return value.  row is the last analyzed candle.   *)

InitStop ==
    /\ pc = "stoploss"
    /\ row = EmptyDataframe
    /\ df = <<>>
    /\ strategy = "BollingerBandsStrategyV9"
    /\ trade \in [is_short : BOOLEAN, stop_loss : StopLevels]
    /\ ret = [called |-> FALSE, num |-> 0, den |-> 1, current_rate |-> 0]
    /\ atr_in = <<>>
    /\ df2 = <<>>
    /\ agree = 0
    /\ metadata = <<>>
    /\ fs = <<>>
    /\ merge = <<>>
    /\ executor = <<>>
    /\ oracle = <<>>

\* The host's dataprovider publishes a newly analyzed dataframe.
AnalyzeCandle ==
    /\ pc = "stoploss"
    /\ row' \in LastCandles \cup {EmptyDataframe}
    /\ UNCHANGED <<pc, df, strategy, trade, ret, atr_in, df2, agree, metadata, fs, merge, executor, oracle>>

CustomStoploss ==
    /\ pc = "stoploss"
    /\ \E current_rate \in Rates :
        LET r == custom_stoploss(trade, current_rate, row)
        IN  /\ ret' = [called |-> TRUE, num |-> r.num, den |-> r.den,
                       current_rate |-> current_rate]
            /\ trade' = [trade EXCEPT !.stop_loss = ImpliedStop(current_rate, r)]
    /\ UNCHANGED <<pc, row, df, strategy, atr_in, df2, agree, metadata, fs, merge, executor, oracle>>

NextStop == AnalyzeCandle \/ CustomStoploss

SpecStop == InitStop /\ [][NextStop]_vars

-----------------------------------------------------------------------------
(* Claims about the stop-loss callback *)

\* C3: for any sequence of custom_stoploss calls on one trade, the stop price
\* implied by a return value is never looser than the one implied by the
\* preceding call: never lower for a long trade, never higher for a short
\* trade, whatever the indicator values (missing ones included) and prices.
C3_StopNeverLoosens ==
    [][ ret.called =>
          IF trade.is_short
          THEN trade'.stop_loss <= trade.stop_loss
          ELSE trade'.stop_loss >= trade.stop_loss ]_vars

-----------------------------------------------------------------------------
(* Specification SpecPair: set_freqai_targets run on two dataframes that      *)
(* share their first rows (candles and atr, which the indicator library       *)
(* computes from the candles up to each row) and differ afterwards.           *)

PairOhlc == { c \in Ohlc : c.high <= 400 }

\* atr columns of n rows: missing on the warm-up rows, then any defined values
PairAtrValues == {0, 120}
PairAtrColumns(n) ==
    { col \in [1..n -> PairAtrValues \cup {NaN}] :
        \A k \in 2..n : col[k] = NaN => col[k - 1] = NaN }

\* The loaded strategy's set_freqai_targets
LabelledBy(s, t, atr) ==
    IF s = "RegimeValidation" THEN set_freqai_targets_RegimeValidation(t, atr)
    ELSE set_freqai_targets(t, atr)

InitPair ==
    /\ pc = "common"
    /\ row = <<>>
    /\ df = <<>>
    /\ strategy \in LabelStrategies
    /\ trade = <<>>
    /\ ret = <<>>
    /\ atr_in = <<>>
    /\ df2 = <<>>
    /\ agree = 0
    /\ metadata = <<>>
    /\ fs = <<>>
    /\ merge = <<>>
    /\ executor = <<>>
    /\ oracle = <<>>

\* One more candle that both dataframes hold.
LoadCommon ==
    /\ pc = "common"
    /\ agree < MaxCommon
    /\ \E c \in PairOhlc :
        /\ df' = Append(df, c)
        /\ df2' = Append(df2, c)
    /\ agree' = agree + 1
    /\ UNCHANGED <<pc, row, strategy, trade, ret, atr_in, metadata, fs, merge, executor, oracle>>

\* One more candle in each dataframe after the shared rows.
LoadTail ==
    /\ pc \in {"common", "tail"}
    /\ Len(df) - agree < MaxTail
    /\ \E c1 \in PairOhlc, c2 \in PairOhlc :
        /\ df' = Append(df, c1)
        /\ df2' = Append(df2, c2)
    /\ pc' = "tail"
    /\ UNCHANGED <<row, strategy, trade, ret, atr_in, agree, metadata, fs, merge, executor, oracle>>

\* set_freqai_targets on each dataframe; the atr columns agree on the shared rows.
SetFreqaiTargetsTwice ==
    /\ pc = "tail"
    /\ \E a1 \in PairAtrColumns(Len(df)), a2 \in PairAtrColumns(Len(df2)) :
        /\ \A k \in 1..agree : a1[k] = a2[k]
        /\ df' = LabelledBy(strategy, df, a1)
        /\ df2' = LabelledBy(strategy, df2, a2)
    /\ pc' = "targets2"
    /\ UNCHANGED <<row, strategy, trade, ret, atr_in, agree, metadata, fs, merge, executor, oracle>>

NextPair == LoadCommon \/ LoadTail \/ SetFreqaiTargetsTwice

SpecPair == InitPair /\ [][NextPair]_vars

\* C12: for two candle sequences that agree on every candle at positions
\* 0..i+horizon and differ only later, set_freqai_targets gives candle i the
\* same label.
C12_NoLookaheadBeyondWindow ==
    pc = "targets2" =>
        \A k \in 1..Len(df) :
            k + Horizon <= agree => df[k].regime_class = df2[k].regime_class

\* ---------------------------------------------------------------------------
\* The FreqAI feature callbacks: feature_engineering_expand_all and
\* feature_engineering_expand_basic.  Twelve strategies share one body behind a
\* timeframe gate (modelled from BollingerRatchet); RegimeValidation has its own
\* body.  The dataframe is processed row by row; a cell is a float: a number
\* num/den, NaN, or an infinity (the sign of an infinity is not kept).
\* ---------------------------------------------------------------------------

Num(n) == [kind |-> "num", num |-> n, den |-> 1]

NaNCell == [kind |-> "nan", num |-> 0, den |-> 1]

InfCell == [kind |-> "inf", num |-> 0, den |-> 1]

isna(v) == v.kind = "nan"

\* a - b on two columns of whole numbers.
FSub(a, b) == IF isna(a) \/ isna(b) THEN NaNCell ELSE Num(a.num - b.num)

\* a / b on two columns of whole numbers: x/0 is an infinity, 0/0 is NaN.
FDiv(a, b) ==
    IF isna(a) \/ isna(b) THEN NaNCell
    ELSE IF b.num = 0 THEN (IF a.num = 0 THEN NaNCell ELSE InfCell)
    ELSE [kind |-> "num", num |-> a.num, den |-> b.num]

FMul100(a) == IF a.kind = "num" THEN [a EXCEPT !.num = @ * 100] ELSE a

\* Series.replace(old, new): NaN is never equal to old.
replace(v, old, new) == IF v.kind = "num" /\ v = Num(old) THEN new ELSE v

\* Series.fillna(0): NaN becomes 0, an infinity stays.
fillna0(v) == IF isna(v) THEN Num(0) ELSE v

\* DataFrame.fillna(0): every column of the row, the ones it had on entry too.
dataframe_fillna0(r) == [c \in DOMAIN r |-> fillna0(r[c])]

\* Series.ffill().fillna(0) at the current row: cur is the value just computed
\* and earlier is the sequence of the rows before it (at most the last one is
\* kept).  The last earlier value, already forward-filled and 0-filled, is what
\* a NaN takes; on the first row there is none and the 0 fills.
ffill_fillna0(cur, earlier, col) ==
    IF ~isna(cur) THEN cur
    ELSE IF earlier = <<>> THEN Num(0)
    ELSE earlier[1][col]

FeatureColumns ==
    {"%regime_chop", "%trend_kama_dist", "%val_ltvd", "%fear_vixfix",
     "%truth_obv_osc"}

\* The columns a dataframe has before the callbacks: close, low and one more
\* column of the host ("other") that may hold NaN; low is at most close.
InputRows ==
    { r \in [{"close", "low", "other"} -> {NaNCell, Num(0), Num(2), Num(7)}] :
        /\ r["close"] \in {Num(0), Num(2)}
        /\ r["low"] \in {Num(0), Num(2)}
        /\ r["low"].num <= r["close"].num
        /\ r["other"] \in {NaNCell, Num(7)} }

\* What the indicator library returns on the current row: chop, kama, the
\* 200 SMA, the rolling 22 maximum of close, obv and its 20 SMA.  A rolling
\* maximum is NaN in warm-up and never below the current close.
IndicatorRows(r) ==
    { i \in [chop : {NaNCell, Num(50)}, kama : {NaNCell, Num(0), Num(2)},
             long_ma : {NaNCell, Num(2)},
             highest_close : {NaNCell, Num(0), Num(2)},
             obv : {Num(2)}, obv_ma : {NaNCell, Num(0), Num(2)}] :
        isna(i.highest_close) \/ i.highest_close.num >= r["close"].num }

\* The gated body with tf = '4h': five columns, then DataFrame.fillna(0).
feature_engineering_expand_all(r, i, md) ==
    IF md.tf # "4h" THEN r
    ELSE dataframe_fillna0(
        [c \in DOMAIN r \cup FeatureColumns |->
            CASE c = "%regime_chop" -> i.chop
              [] c = "%trend_kama_dist" ->
                    FDiv(FSub(r["close"], i.kama), i.kama)
              [] c = "%val_ltvd" ->
                    FDiv(FSub(r["close"], i.long_ma), r["close"])
              [] c = "%fear_vixfix" ->
                    FMul100(FDiv(FSub(i.highest_close, r["low"]),
                                 i.highest_close))
              [] c = "%truth_obv_osc" ->
                    FDiv(FSub(i.obv, i.obv_ma), i.obv_ma)
              [] OTHER -> r[c]])

\* RegimeValidation: no gate; guarded denominators for three of the ratios and
\* ffill().fillna(0) on four of the columns; %regime_chop is left as computed.
feature_engineering_expand_all_RegimeValidation(r, i, earlier) ==
    LET kama_safe == replace(i.kama, 0, NaNCell)
        highest_close_safe == replace(i.highest_close, 0, NaNCell)
        obv_ma_safe == replace(i.obv_ma, 0, Num(1))
    IN  [c \in DOMAIN r \cup FeatureColumns |->
            CASE c = "%regime_chop" -> i.chop
              [] c = "%trend_kama_dist" ->
                    ffill_fillna0(FDiv(FSub(r["close"], i.kama), kama_safe),
                                  earlier, c)
              [] c = "%val_ltvd" ->
                    ffill_fillna0(FDiv(FSub(r["close"], i.long_ma),
                                       r["close"]), earlier, c)
              [] c = "%fear_vixfix" ->
                    ffill_fillna0(
                        FMul100(FDiv(FSub(i.highest_close, r["low"]),
                                     highest_close_safe)), earlier, c)
              [] c = "%truth_obv_osc" ->
                    ffill_fillna0(FDiv(FSub(i.obv, i.obv_ma), obv_ma_safe),
                                  earlier, c)
              [] OTHER -> r[c]]

\* Series.pct_change() at the current row: NaN on the first row.
pct_change(r, earlier) ==
    IF earlier = <<>> THEN NaNCell
    ELSE FDiv(FSub(r["close"], earlier[1]["close"]), earlier[1]["close"])

WithColumn(r, col, v) ==
    [c \in DOMAIN r \cup {col} |-> IF c = col THEN v ELSE r[c]]

feature_engineering_expand_basic(r, earlier, md) ==
    IF md.tf # "4h" THEN r
    ELSE WithColumn(r, "%pct-change", fillna0(pct_change(r, earlier)))

feature_engineering_expand_basic_RegimeValidation(r, earlier) ==
    WithColumn(r, "%pct-change", fillna0(pct_change(r, earlier)))

Timeframes == {"4h", "1h", ""}     \* "" is metadata without a 'tf' key

\* The columns of a finished row that a later row reads: pct_change reads
\* close, RegimeValidation's ffill reads the four columns it fills.
ReadBack(s) ==
    {"close"} \cup (IF s = "RegimeValidation"
                    THEN FeatureColumns \ {"%regime_chop"} ELSE {})

Restrict(r, cols) == [c \in DOMAIN r \cap cols |-> r[c]]

InitFeature ==
    /\ pc = "load"
    /\ row = <<>>
    /\ df = <<>>
    /\ strategy \in LabelStrategies
    /\ trade = <<>>
    /\ ret = <<>>
    /\ atr_in = <<>>
    /\ df2 = <<>>
    /\ agree = 0
    /\ metadata \in [tf : Timeframes]
    /\ fs = <<>>
    /\ merge = <<>>
    /\ executor = <<>>
    /\ oracle = <<>>

\* The next row of the dataframe as the host hands it over; the finished row
\* before it stays readable in df.
LoadRow ==
    /\ pc = "load"
    /\ \E r \in InputRows : row' = r
    /\ df' = IF DOMAIN row = {} THEN <<>>
             ELSE <<Restrict(row, ReadBack(strategy))>>
    /\ pc' = "expand_all"
    /\ UNCHANGED <<strategy, trade, ret, atr_in, df2, agree, metadata, fs, merge, executor, oracle>>

\* feature_engineering_expand_all of the strategy on the current row; after
\* it only close of the earlier row is still to be read.
FeatureEngineeringExpandAll ==
    /\ pc = "expand_all"
    /\ \E i \in IndicatorRows(row) :
        row' = IF strategy = "RegimeValidation"
               THEN feature_engineering_expand_all_RegimeValidation(row, i, df)
               ELSE feature_engineering_expand_all(row, i, metadata)
    /\ df' = IF df = <<>> THEN <<>> ELSE <<Restrict(df[1], {"close"})>>
    /\ pc' = "expand_basic"
    /\ UNCHANGED <<strategy, trade, ret, atr_in, df2, agree, metadata, fs, merge, executor, oracle>>

\* feature_engineering_expand_basic of the strategy on the current row.
FeatureEngineeringExpandBasic ==
    /\ pc = "expand_basic"
    /\ row' = IF strategy = "RegimeValidation"
              THEN feature_engineering_expand_basic_RegimeValidation(row, df)
              ELSE feature_engineering_expand_basic(row, df, metadata)
    /\ pc' = "load"
    /\ UNCHANGED <<df, strategy, trade, ret, atr_in, df2, agree, metadata, fs, merge, executor, oracle>>

NextFeature ==
    LoadRow \/ FeatureEngineeringExpandAll \/ FeatureEngineeringExpandBasic

SpecFeature == InitFeature /\ [][NextFeature]_vars

\* C13: a feature callback called with a metadata timeframe other than '4h'
\* (or with none) returns the dataframe it was given: no column added, no
\* cell changed.
C13_GateReturnsInput ==
    [][(pc \in {"expand_all", "expand_basic"} /\ metadata.tf # "4h")
            => row' = row]_vars

\* C14: after feature_engineering_expand_all every feature column of the row
\* holds a defined value: never NaN and never an infinity, in warm-up (an
\* indicator is NaN) and when a ratio's denominator is zero or undefined.
C14_FeaturesDefined ==
    pc = "expand_basic" =>
        \A c \in DOMAIN row \cap FeatureColumns : row[c].kind = "num"

\* ---------------------------------------------------------------------------
\* A batch of candles with its date column, handed to populate_indicators
\* (lines 209-234, the state loop) or to set_freqai_targets.  Neither reads the
\* date column or raises: rows are taken in the order of their position.
\* ---------------------------------------------------------------------------

MaxBatch == 2

Dates == 1..3

WithDate(r, d) == [date |-> d] @@ r

\* The dates of the rows increase strictly: in order and without a duplicate.
DatesIncreasing(t) == \A k \in 2..Len(t) : t[k - 1].date < t[k].date

\* Lines 209-234 on a dated batch: the date column passes through.
populate_indicators_batch(t) ==
    [k \in 1..Len(t) |->
        [t[k] EXCEPT !.is_potential_long = LongStateColumn(t, k),
                     !.is_potential_short = ShortStateColumn(t, k)]]

\* set_freqai_targets on a dated batch: the date column passes through.
set_freqai_targets_batch(t, atr) ==
    [k \in 1..Len(t) |-> WithDate(set_freqai_targets(t, atr)[k], t[k].date)]

InitBatch ==
    /\ pc \in {"indicators", "targets"}
    /\ row = <<>>
    /\ df = <<>>
    /\ strategy = "BollingerRatchet"
    /\ trade = <<>>
    /\ ret = [raised |-> FALSE, returned |-> FALSE]
    /\ atr_in = <<>>
    /\ df2 = <<>>
    /\ agree = 0
    /\ metadata = <<>>
    /\ fs = <<>>
    /\ merge = <<>>
    /\ executor = <<>>
    /\ oracle = <<>>

\* One more row of a batch for populate_indicators, with any date.
LoadDatedCandle ==
    /\ pc = "indicators"
    /\ Len(df) < MaxBatch
    /\ \E r \in SetupRows, d \in Dates : df' = Append(df, WithDate(r, d))
    /\ UNCHANGED <<pc, row, strategy, trade, ret, atr_in, df2, agree, metadata, fs, merge, executor, oracle>>

\* One more row of a batch for set_freqai_targets, with any date.
LoadDatedOhlc ==
    /\ pc = "targets"
    /\ Len(df) < MaxBatch
    /\ \E c \in Ohlc, d \in Dates : df' = Append(df, WithDate(c, d))
    /\ UNCHANGED <<pc, row, strategy, trade, ret, atr_in, df2, agree, metadata, fs, merge, executor, oracle>>

\* populate_indicators returns the dataframe with its state columns.
PopulateIndicatorsBatch ==
    /\ pc = "indicators"
    /\ df2' = df
    /\ df' = populate_indicators_batch(df)
    /\ ret' = [raised |-> FALSE, returned |-> TRUE]
    /\ pc' = "returned"
    /\ UNCHANGED <<row, strategy, trade, atr_in, agree, metadata, fs, merge, executor, oracle>>

\* set_freqai_targets returns the dataframe with its label column.
SetFreqaiTargetsBatch ==
    /\ pc = "targets"
    /\ \E atr \in AtrColumns(Len(df)) :
          /\ df' = set_freqai_targets_batch(df, atr)
          /\ atr_in' = atr
    /\ df2' = df
    /\ ret' = [raised |-> FALSE, returned |-> TRUE]
    /\ pc' = "returned"
    /\ UNCHANGED <<row, strategy, trade, agree, metadata, fs, merge, executor, oracle>>

NextBatch ==
    \/ LoadDatedCandle
    \/ LoadDatedOhlc
    \/ PopulateIndicatorsBatch
    \/ SetFreqaiTargetsBatch

SpecBatch == InitBatch /\ [][NextBatch]_vars

\* C15: a batch whose dates are out of order or hold a duplicate is rejected
\* with an error by populate_indicators and by set_freqai_targets: no state or
\* label columns are returned for it.
C15_MalformedBatchRejected ==
    (pc = "returned" /\ ~DatesIncreasing(df2)) =>
        (ret.raised /\ ~ret.returned)

\* C16: once populate_entry_trend has run on a candle, enter_long is set on it
\* exactly when is_potential_long, long_trigger and mfi < 40 all hold, and
\* enter_short exactly when is_potential_short, short_trigger and mfi > 60 all
\* hold (an undefined mfi passes neither filter).
C16_EntryRule ==
    (pc = "indicators" /\ ~row.first) =>
        /\ row.enter_long = 1 <=>
              (/\ row.is_potential_long
               /\ row.long_trigger
               /\ row.mfi # NaN /\ row.mfi < 40)
        /\ row.enter_short = 1 <=>
              (/\ row.is_potential_short
               /\ row.short_trigger
               /\ row.mfi # NaN /\ row.mfi > 60)

\* C16 witness: populate_entry_trend has set a long entry on a candle.
C16_Witness ==
    /\ pc = "indicators"
    /\ ~row.first
    /\ row.enter_long = 1
    /\ row.enter_short = 0

-----------------------------------------------------------------------------
(* The two sides of custom_stoploss under the reflection of every price      *)
(* about current_rate                                                         *)

\* p reflected about current_rate; a missing value stays missing.
Reflect(p, current_rate) == IF p = NaN THEN NaN ELSE 2 * current_rate - p

\* The reflected candle: the upper candidate becomes the lower one.
ReflectCandle(c, current_rate) ==
    [empty |-> c.empty,
     atr_lower |-> Reflect(c.atr_upper, current_rate),
     atr_upper |-> Reflect(c.atr_lower, current_rate),
     bb_middleband |-> Reflect(c.bb_middleband, current_rate)]

\* The trade of the other side with the reflected stop.
ReflectTrade(t, current_rate) ==
    [is_short |-> ~t.is_short,
     stop_loss |-> Reflect(t.stop_loss, current_rate)]

FracNeg(a) == [num |-> -a.num, den |-> a.den]

FracEq(a, b) == a.num * b.den = b.num * a.den

\* A step of SpecStop in which custom_stoploss was called (the candle stays).
IsStoplossCall == ret'.called /\ row' = row /\ (ret' # ret \/ trade' # trade)

\* C17: the offset custom_stoploss returns for a short trade is the negative
\* of the one it returns for the long trade on the reflected inputs (every
\* price p replaced by 2*current_rate - p), for all inputs.
C17_SidesMirror ==
    [][(IsStoplossCall /\ trade.is_short) =>
          FracEq([num |-> ret'.num, den |-> ret'.den],
                 FracNeg(custom_stoploss(
                     ReflectTrade(trade, ret'.current_rate),
                     ret'.current_rate,
                     ReflectCandle(row, ret'.current_rate))))]_vars

-----------------------------------------------------------------------------
(* The state loop on a truncated history *)

\* The history from position s on, as a dataframe of its own.
Suffix(t, s) == SubSeq(t, s, Len(t))

\* E or V of the long side / of the short side holds on the row.
LongEvent(r) == r.potential_long \/ r.long_invalidation

ShortEvent(r) == r.potential_short \/ r.short_invalidation

\* j is the first position of t with an event of the side.
FirstLongEvent(t, j) ==
    LongEvent(t[j]) /\ \A i \in 1..(j - 1) : ~LongEvent(t[i])

FirstShortEvent(t, j) ==
    ShortEvent(t[j]) /\ \A i \in 1..(j - 1) : ~ShortEvent(t[i])

-----------------------------------------------------------------------------
(* The frame of feature_engineering_expand_all *)

\* C19: with timeframe '4h', feature_engineering_expand_all leaves every
\* column the row had on entry with the value it had, NaN included; it only
\* adds its five feature columns.
C19_ExistingColumnsKept ==
    [][(pc = "expand_all" /\ metadata.tf = "4h") =>
          /\ DOMAIN row' = DOMAIN row \cup FeatureColumns
          /\ \A c \in DOMAIN row : row'[c] = row[c]]_vars

-----------------------------------------------------------------------------
(* OracleSurfer_v13_PROD.adjust_trade_position: pyramiding into a winning     *)
(* trade.  current_profit is in thousandths (25 is 2.5%).  The host fills     *)
(* every add the callback asks for; trade.stake_amount is the total filled    *)
(* stake and trade.entries lists the size of each filled entry.               *)

max_entry_position_adjustment == 2

Stakes == {10, 20, 30, 40, 50, 60, 70, 80, 90, 100}

Profits == {0, 25, 26, 50, 51}

\* The return value None.
NoAdjustment == [none |-> TRUE, amount |-> 0]

StakeAdjustment(a) == [none |-> FALSE, amount |-> a]

adjust_trade_position(t, current_profit) ==
    IF t.nr_of_successful_entries >= max_entry_position_adjustment + 1
    THEN NoAdjustment
    ELSE IF t.nr_of_successful_entries = 1 /\ current_profit > 25
    THEN StakeAdjustment(t.stake_amount)
    ELSE IF t.nr_of_successful_entries = 2 /\ current_profit > 50
    THEN StakeAdjustment(t.stake_amount)
    ELSE NoAdjustment

\* The trade after the host has filled an add of the given size.
FilledEntry(t, a) ==
    [nr_of_successful_entries |-> t.nr_of_successful_entries + 1,
     stake_amount |-> t.stake_amount + a,
     entries |-> Append(t.entries, a)]

InitPyramid ==
    /\ pc = "adjust"
    /\ row = <<>>
    /\ df = <<>>
    /\ strategy = "OracleSurfer_v13_PROD"
    /\ \E s \in Stakes :
        trade = [nr_of_successful_entries |-> 1, stake_amount |-> s,
                 entries |-> <<s>>]
    /\ ret = [called |-> FALSE, current_profit |-> 0, none |-> TRUE,
              amount |-> 0]
    /\ atr_in = <<>>
    /\ df2 = <<>>
    /\ agree = 0
    /\ metadata = <<>>
    /\ fs = <<>>
    /\ merge = <<>>
    /\ executor = <<>>
    /\ oracle = <<>>

\* One call of the callback by the host, and the fill of what it asked for.
AdjustTradePosition ==
    /\ pc = "adjust"
    /\ \E current_profit \in Profits :
        LET r == adjust_trade_position(trade, current_profit)
        IN  /\ ret' = [called |-> TRUE, current_profit |-> current_profit,
                       none |-> r.none, amount |-> r.amount]
            /\ trade' = IF r.none THEN trade ELSE FilledEntry(trade, r.amount)
    /\ UNCHANGED <<pc, row, df, strategy, atr_in, df2, agree, metadata, fs, merge, executor, oracle>>

NextPyramid == AdjustTradePosition

SpecPyramid == InitPyramid /\ [][NextPyramid]_vars

\* C20: a trade never has more than 3 entries, and every add is of the size of
\* the initial entry.
C20_EqualSizedAdds ==
    /\ Len(trade.entries) <= 3
    /\ \A k \in 2..Len(trade.entries) : trade.entries[k] = trade.entries[1]

-----------------------------------------------------------------------------
(* archive_logs.py: copy the rotated logs into the archive directory, then    *)
(* delete old archives.  A file is its rotation number and the age of its     *)
(* modification time in days; shutil.copy2 keeps the modification time, and   *)
(* the archive name is made of the modification date and the rotation number. *)

days_to_keep == 30

RotationNums == {1, 2}

Ages == {5, 30, 45, 90}

KeepDays == {10, 30, 60}

Files == [rotation_num : RotationNums, age : Ages]

\* The rotated logs of a directory: at most one file per rotation number.
LogDirs ==
    { d \in SUBSET Files :
        \A f \in d, g \in d : f.rotation_num = g.rotation_num => f = g }

\* Lines 98-117: an archive whose st_mtime is before the cutoff is deleted.
cleanup_old_archives(archive, keep) == { f \in archive : ~(f.age > keep) }

\* Lines 25-96; the result is the archive directory after the call.
archive_logs(logs, archive, dry_run, log_dir_exists) ==
    IF ~log_dir_exists THEN archive
    ELSE IF logs = {} THEN archive
    ELSE IF dry_run THEN archive
    ELSE cleanup_old_archives(archive \cup logs, days_to_keep)

\* Lines 178-182: main passes log_dir, archive_dir and dry_run.
main(f) ==
    [f EXCEPT !.archive = archive_logs(f.logs, f.archive, f.args.dry_run,
                                       f.log_dir_exists)]

InitArchive ==
    /\ pc = "shell"
    /\ row = <<>>
    /\ df = <<>>
    /\ strategy = "none"
    /\ trade = <<>>
    /\ ret = <<>>
    /\ atr_in = <<>>
    /\ df2 = <<>>
    /\ agree = 0
    /\ metadata = <<>>
    /\ fs \in [args : [keep_days : KeepDays, dry_run : BOOLEAN],
               log_dir_exists : {TRUE},
               logs : LogDirs,
               archive : SUBSET Files]
    /\ merge = <<>>
    /\ executor = <<>>
    /\ oracle = <<>>

\* The log directory is removed.
RemoveLogDir ==
    /\ pc = "shell"
    /\ fs.log_dir_exists
    /\ fs' = [fs EXCEPT !.log_dir_exists = FALSE, !.logs = {}]
    /\ UNCHANGED <<pc, row, df, strategy, trade, ret, atr_in, df2, agree,
                   metadata, merge, executor, oracle>>

\* python archive_logs.py --keep-days N [--dry-run]
Main ==
    /\ pc = "shell"
    /\ fs' = main(fs)
    /\ pc' = "exit"
    /\ UNCHANGED <<row, df, strategy, trade, ret, atr_in, df2, agree,
                   metadata, merge, executor, oracle>>

NextArchive == RemoveLogDir \/ Main

SpecArchive == InitArchive /\ [][NextArchive]_vars

\* C21: a run with --keep-days N deletes only archives older than N days:
\* every archive of at most N days that was there before the run is there
\* after it.
C21_KeepDaysHonoured ==
    [][(pc = "shell" /\ pc' = "exit" /\ ~fs.args.dry_run) =>
          \A f \in fs.archive :
              f.age <= fs.args.keep_days => f \in fs'.archive]_vars

-----------------------------------------------------------------------------
(* merge_trades_with_oracle.py: the predictions dataframe as                  *)
(* load_all_predictions builds it, find_closest_prediction, and the loop of   *)
(* merge_trades_with_oracle over the trades.                                  *)

MaxPredictions == 3

MaxTrades == 2

NaT == NaN

PredictionDates == {1, 2, 3}

TradeTimes == {0, 2, 3}

OracleRegimes == {"BEAR", "BULL"}

\* The concatenated prediction files after sort_values('date') and
\* reset_index(drop=True): labels 0..n-1 in the order of the dates.
SortedPredictions ==
    { p \in UNION { [1..n -> [date : PredictionDates, regime : OracleRegimes]] :
                    n \in 0..MaxPredictions } :
        \A k \in 2..Len(p) : p[k - 1].date <= p[k].date }

WithLabels(p) ==
    [k \in 1..Len(p) |->
        [label |-> k - 1, date |-> p[k].date, regime |-> p[k].regime]]

\* drop_duplicates(subset=['date'], keep='last'): the rows keep their labels.
drop_duplicates(p) ==
    SelectSeq(p, LAMBDA r :
        ~\E j \in 1..Len(p) : p[j].date = r.date /\ p[j].label > r.label)

\* Lines 173-187 of load_all_predictions.
load_all_predictions(p) == drop_duplicates(WithLabels(p))

\* The row of the dataframe with the given label, as a set (empty: KeyError).
Loc(pdf, label) == { pdf[k] : k \in { j \in 1..Len(pdf) : pdf[j].label = label } }

\* Series.idxmax(): the label of the first row with the largest date.
idxmax(rows) ==
    (CHOOSE r \in rows :
        \A q \in rows : q.date < r.date \/ (q.date = r.date /\ q.label >= r.label)
    ).label

NoPrediction ==
    [kind |-> "None", oracle_regime |-> "NaN", oracle_prediction_time |-> NaT]

KeyError ==
    [kind |-> "KeyError", oracle_regime |-> "NaN",
     oracle_prediction_time |-> NaT]

\* A local name that no assignment has bound yet.
Unbound ==
    [kind |-> "unbound", oracle_regime |-> "NaN",
     oracle_prediction_time |-> NaT]

OracleData(r) ==
    [kind |-> "dict", oracle_regime |-> r.regime,
     oracle_prediction_time |-> r.date]

\* Lines 189-219.
find_closest_prediction(timestamp, pdf) ==
    IF pdf = <<>> THEN NoPrediction
    ELSE LET mask == { pdf[k] : k \in { j \in 1..Len(pdf) :
                                          pdf[j].date <= timestamp } }
             closest_idx == IF mask = {} THEN 0 ELSE idxmax(mask)
         IN  IF Loc(pdf, closest_idx) = {} THEN KeyError
             ELSE OracleData(CHOOSE r \in Loc(pdf, closest_idx) : TRUE)

Trades == [entry_time : TradeTimes \cup {NaT}, exit_time : TradeTimes \cup {NaT}]

TradeTables == UNION { [1..n -> Trades] : n \in 0..MaxTrades }

\* Lines 237-246 and 249-258: the local after the block, given the local before.
OracleAt(time, pdf, before) ==
    IF notna(time) THEN find_closest_prediction(time, pdf) ELSE before

\* Lines 261-270: None when either local is None, a NameError when a local
\* that is read is not bound.
RegimeChange(entry_oracle, exit_oracle) ==
    IF entry_oracle.kind = "unbound" THEN [kind |-> "NameError"]
    ELSE IF entry_oracle.kind = "None" THEN [kind |-> "None"]
    ELSE IF exit_oracle.kind = "unbound" THEN [kind |-> "NameError"]
    ELSE IF exit_oracle.kind = "None" THEN [kind |-> "None"]
    ELSE [kind |-> "value",
          oracle_regime_changed |->
              entry_oracle.oracle_regime # exit_oracle.oracle_regime,
          oracle_regime_change |->
              <<entry_oracle.oracle_regime, exit_oracle.oracle_regime>>]

\* The keys one block writes into merged_trade: none when the time is not
\* valid, None for each key when no prediction was found.
OracleKeys(time, oracle_data) ==
    IF notna(time) THEN oracle_data ELSE Unbound

\* One iteration of the loop at lines 233-272.
MergeOneTrade(m) ==
    LET t == m.trades_df[m.i]
        entry_oracle == OracleAt(t.entry_time, m.predictions_df, m.entry_oracle)
        exit_oracle == OracleAt(t.exit_time, m.predictions_df, m.exit_oracle)
        change == RegimeChange(entry_oracle, exit_oracle)
    IN  IF entry_oracle.kind = "KeyError"
        THEN [m EXCEPT !.raised = "KeyError"]
        ELSE IF exit_oracle.kind = "KeyError"
        THEN [m EXCEPT !.raised = "KeyError", !.entry_oracle = entry_oracle]
        ELSE IF change.kind = "NameError"
        THEN [m EXCEPT !.raised = "NameError", !.entry_oracle = entry_oracle,
                       !.exit_oracle = exit_oracle]
        ELSE [m EXCEPT
                !.entry_oracle = entry_oracle,
                !.exit_oracle = exit_oracle,
                !.i = @ + 1,
                !.merged_rows = Append(@,
                    [trade |-> t,
                     entry |-> OracleKeys(t.entry_time, entry_oracle),
                     exit |-> OracleKeys(t.exit_time, exit_oracle),
                     change |-> change])]

InitMerge ==
    /\ pc = "call"
    /\ row = <<>>
    /\ df = <<>>
    /\ strategy = "none"
    /\ trade = <<>>
    /\ ret = <<>>
    /\ atr_in = <<>>
    /\ df2 = <<>>
    /\ agree = 0
    /\ metadata = <<>>
    /\ fs = <<>>
    /\ \E p \in SortedPredictions, t \in TradeTables :
        merge = [predictions_df |-> load_all_predictions(p), trades_df |-> t,
                 i |-> 1, entry_oracle |-> Unbound, exit_oracle |-> Unbound,
                 merged_rows |-> <<>>, raised |-> "no"]
    /\ executor = <<>>
    /\ oracle = <<>>

\* Lines 223-231: the two early returns, or the start of the loop.
CallMerge ==
    /\ pc = "call"
    /\ pc' = IF merge.trades_df = <<>> \/ merge.predictions_df = <<>>
             THEN "returned" ELSE "loop"
    /\ UNCHANGED <<row, df, strategy, trade, ret, atr_in, df2, agree, metadata,
                   fs, merge, executor, oracle>>

MergeTrade ==
    /\ pc = "loop"
    /\ merge.i <= Len(merge.trades_df)
    /\ merge' = MergeOneTrade(merge)
    /\ pc' = IF merge'.raised # "no" THEN "raised" ELSE "loop"
    /\ UNCHANGED <<row, df, strategy, trade, ret, atr_in, df2, agree, metadata,
                   fs, executor, oracle>>

\* Lines 274-278.
ReturnMerged ==
    /\ pc = "loop"
    /\ merge.i > Len(merge.trades_df)
    /\ pc' = "returned"
    /\ UNCHANGED <<row, df, strategy, trade, ret, atr_in, df2, agree, metadata,
                   fs, merge, executor, oracle>>

NextMerge == CallMerge \/ MergeTrade \/ ReturnMerged

SpecMerge == InitMerge /\ [][NextMerge]_vars

\* The prediction of the dataframe dated d is the latest one at or before ts.
LatestAtOrBefore(d, ts, pdf) ==
    /\ d <= ts
    /\ \A k \in 1..Len(pdf) : ~(d < pdf[k].date /\ pdf[k].date <= ts)

\* C22: a prediction that find_closest_prediction has returned for a trade's
\* entry or exit time is never dated after that time: it is the latest one
\* dated at or before it.
C22_NoFuturePrediction ==
    \A k \in 1..Len(merge.merged_rows) :
        LET r == merge.merged_rows[k]
        IN  /\ r.entry.kind = "dict" =>
                LatestAtOrBefore(r.entry.oracle_prediction_time,
                                 r.trade.entry_time, merge.predictions_df)
            /\ r.exit.kind = "dict" =>
                LatestAtOrBefore(r.exit.oracle_prediction_time,
                                 r.trade.exit_time, merge.predictions_df)

-----------------------------------------------------------------------------
(* SniperBacktest.set_freqai_targets (the body the strategies other than      *)
(* RegimeValidation share) against RegimeValidation.set_freqai_targets        *)

\* C23: on every candle sequence and atr column the two labelers give each
\* candle the same label, candles of the ATR warm-up and candles with a zero
\* barrier included.
C23_SameLabelsAsOracle ==
    pc = "targets" =>
        \A k \in 1..Len(df) :
            set_freqai_targets(df, atr_in)[k].regime_class
                = set_freqai_targets_RegimeValidation(df, atr_in)[k].regime_class

-----------------------------------------------------------------------------
(* The clamp of custom_stoploss and the fallbacks of the three callbacks of   *)
(* BollingerBandsStrategyV9                                                   *)

\* The last candle carries the three indicators custom_stoploss requires.
StopIndicatorsDefined(c) ==
    ~c.empty /\ notna(c.atr_lower) /\ notna(c.atr_upper) /\ notna(c.bb_middleband)

Abs(x) == IF x < 0 THEN -x ELSE x

\* C24: a computed (non-fallback) return value of custom_stoploss puts the
\* stop at least 5% away from current_rate.
C24_MinimumFivePercent ==
    [][(IsStoplossCall /\ StopIndicatorsDefined(row)) =>
          Abs(ret'.num) * 20 >= ret'.den]_vars

\* The last candle with every indicator column populate_indicators writes
\* (lines 142-149 and 169-202 write all of them on every path); atr_lower and
\* atr_upper are close -/+ atr * risk_factor and are missing with atr.
FullLastCandles ==
    { c \in [empty : {FALSE},
             atr_lower : {NaN, 90}, atr_upper : {NaN, 110},
             bb_middleband : {NaN, 97},
             ema : {NaN, 100}, bb_upperband : {NaN, 120},
             bb_lowerband : {NaN, 80}, mfi : {NaN, 50}, atr : {NaN, 10}] :
        /\ (c.atr = NaN) = (c.atr_lower = NaN)
        /\ (c.atr = NaN) = (c.atr_upper = NaN) }

FullEmptyDataframe ==
    [empty |-> TRUE, atr_lower |-> NaN, atr_upper |-> NaN,
     bb_middleband |-> NaN, ema |-> NaN, bb_upperband |-> NaN,
     bb_lowerband |-> NaN, mfi |-> NaN, atr |-> NaN]

\* custom_exit without the test of the indicators (a variant that must fail
\* the fallback rule)
custom_exit_unchecked(t, current_rate, c) ==
    IF c.empty THEN "None"
    ELSE IF t.is_short /\ current_rate >= t.stop_loss THEN "stop_loss_hit"
    ELSE IF ~t.is_short /\ current_rate <= t.stop_loss THEN "stop_loss_hit"
    ELSE "None"

\* Lines 355-381: None, or ('custom_exit', 'stop_loss_hit').
custom_exit(t, current_rate, c) ==
    IF c.empty THEN "None"
    ELSE IF ~(notna(c.atr_lower) /\ notna(c.atr_upper)
              /\ notna(c.bb_middleband))
    THEN "None"
    ELSE IF t.is_short /\ current_rate >= t.stop_loss THEN "stop_loss_hit"
    ELSE IF ~t.is_short /\ current_rate <= t.stop_loss THEN "stop_loss_hit"
    ELSE "None"

\* Lines 383-404.
confirm_trade_entry(c) ==
    IF c.empty THEN FALSE
    ELSE IF ~(notna(c.ema) /\ notna(c.bb_upperband) /\ notna(c.bb_lowerband)
              /\ notna(c.mfi) /\ notna(c.atr))
    THEN FALSE
    ELSE TRUE

NotCalled ==
    [callback |-> "none", current_rate |-> 0, offset |-> stoploss,
     exit |-> "None", confirmed |-> FALSE]

InitCallbacks ==
    /\ pc = "bot"
    /\ row \in FullLastCandles \cup {FullEmptyDataframe}
    /\ df = <<>>
    /\ strategy = "BollingerBandsStrategyV9"
    /\ trade \in [is_short : BOOLEAN, stop_loss : {90, 110}]
    /\ ret = NotCalled
    /\ atr_in = <<>>
    /\ df2 = <<>>
    /\ agree = 0
    /\ metadata = <<>>
    /\ fs = <<>>
    /\ merge = <<>>
    /\ executor = <<>>
    /\ oracle = <<>>

CallCustomStoploss ==
    /\ pc = "bot"
    /\ \E current_rate \in Rates :
        ret' = [NotCalled EXCEPT
                  !.callback = "custom_stoploss",
                  !.current_rate = current_rate,
                  !.offset = custom_stoploss(trade, current_rate, row)]
    /\ UNCHANGED <<pc, row, df, strategy, trade, atr_in, df2, agree, metadata,
                   fs, merge, executor, oracle>>

CallCustomExit ==
    /\ pc = "bot"
    /\ \E current_rate \in Rates :
        ret' = [NotCalled EXCEPT
                  !.callback = "custom_exit",
                  !.current_rate = current_rate,
                  !.exit = custom_exit(trade, current_rate, row)]
    /\ UNCHANGED <<pc, row, df, strategy, trade, atr_in, df2, agree, metadata,
                   fs, merge, executor, oracle>>

CallConfirmTradeEntry ==
    /\ pc = "bot"
    /\ ret' = [NotCalled EXCEPT
                  !.callback = "confirm_trade_entry",
                  !.confirmed = confirm_trade_entry(row)]
    /\ UNCHANGED <<pc, row, df, strategy, trade, atr_in, df2, agree, metadata,
                   fs, merge, executor, oracle>>

NextCallbacks == CallCustomStoploss \/ CallCustomExit \/ CallConfirmTradeEntry

SpecCallbacks == InitCallbacks /\ [][NextCallbacks]_vars

\* The last candle lacks one of the indicators the two stop callbacks read.
LacksStopIndicator ==
    row.atr_lower = NaN \/ row.atr_upper = NaN \/ row.bb_middleband = NaN

\* The last candle lacks one of the indicators confirm_trade_entry reads.
LacksEntryIndicator ==
    \/ row.ema = NaN \/ row.bb_upperband = NaN \/ row.bb_lowerband = NaN
    \/ row.mfi = NaN \/ row.atr = NaN

\* C25: with an empty analyzed dataframe, or a last candle that lacks an
\* indicator the callback requires, custom_stoploss returns the static
\* stoploss -0.10, custom_exit returns no exit and confirm_trade_entry rejects
\* the entry.
C25_FallbackOnMissingData ==
    /\ (ret.callback = "custom_stoploss" /\ (row.empty \/ LacksStopIndicator))
          => ret.offset.num * 10 = -1 * ret.offset.den
    /\ (ret.callback = "custom_exit" /\ (row.empty \/ LacksStopIndicator))
          => ret.exit = "None"
    /\ (ret.callback = "confirm_trade_entry"
            /\ (row.empty \/ LacksEntryIndicator))
          => ~ret.confirmed

\* C25 witness: custom_exit called on a long trade whose stop is hit, with a
\* last candle that lacks bb_middleband only.
C25_Witness ==
    /\ ret.callback = "custom_exit"
    /\ ~row.empty
    /\ row.bb_middleband = NaN /\ row.atr_lower # NaN
    /\ ~trade.is_short
    /\ ret.current_rate <= trade.stop_loss
    /\ ret.exit = "None"

-----------------------------------------------------------------------------
(* executor_logic.py, main: the loop that drains the queued Oracle messages,  *)
(* analyses the market and prints the heartbeat.  A message is the regime it  *)
(* carries.                                                                   *)

MaxQueue == 3

\* Lines 193-230 on the queued messages q, first to last: the locals
\* current_regime and oracle_updated after the drain.
RECURSIVE Drain(_, _, _)
Drain(q, current_regime, oracle_updated) ==
    IF q = <<>>
    THEN [current_regime |-> current_regime, oracle_updated |-> oracle_updated]
    ELSE IF Head(q) # current_regime
    THEN Drain(Tail(q), Head(q), TRUE)
    ELSE Drain(Tail(q), current_regime, oracle_updated)

InitExecutor ==
    /\ pc = "loop"
    /\ row = <<>>
    /\ df = <<>>
    /\ strategy = "none"
    /\ trade = <<>>
    /\ ret = <<>>
    /\ atr_in = <<>>
    /\ df2 = <<>>
    /\ agree = 0
    /\ metadata = <<>>
    /\ fs = <<>>
    /\ merge = <<>>
    /\ executor = [queue |-> <<>>, current_regime |-> "WAITING_FOR_ORACLE",
                   iteration |-> 0, banner |-> FALSE, heartbeat |-> FALSE]
    /\ oracle = <<>>

\* A REGIME_SIGNAL message of the Oracle arrives at the SUB socket.
ReceiveRegimeSignal ==
    /\ pc = "loop"
    /\ Len(executor.queue) < MaxQueue
    /\ \E regime \in Regimes :
        executor' = [executor EXCEPT !.queue = Append(@, regime)]
    /\ UNCHANGED <<pc, row, df, strategy, trade, ret, atr_in, df2, agree,
                   metadata, fs, merge, oracle>>

\* One iteration of the loop at lines 187-328: the drain, then the market
\* analysis; the banner and the heartbeat are printed only when
\* calculate_indicators has returned a row (line 236).
ExecutorIteration ==
    /\ pc = "loop"
    /\ \E latest_is_none \in BOOLEAN :
        LET d == Drain(executor.queue, executor.current_regime, FALSE)
        IN  executor' = [queue |-> <<>>,
                         current_regime |-> d.current_regime,
                         iteration |-> 1 - executor.iteration,
                         banner |-> ~latest_is_none /\ d.oracle_updated,
                         heartbeat |-> ~latest_is_none]
    /\ UNCHANGED <<pc, row, df, strategy, trade, ret, atr_in, df2, agree,
                   metadata, fs, merge, oracle>>

NextExecutor == ReceiveRegimeSignal \/ ExecutorIteration

SpecExecutor == InitExecutor /\ [][NextExecutor]_vars

\* C26: an iteration prints the 'Regime changed' banner exactly when the
\* regime held after the drain differs from the regime held before the
\* iteration.
C26_BannerIffRegimeChanged ==
    [][executor'.iteration # executor.iteration =>
          (executor'.banner
              <=> executor'.current_regime # executor.current_regime)]_vars

-----------------------------------------------------------------------------
(* RegimeValidation: the last known state shared by populate_entry_trend      *)
(* (the strategy thread) and _periodic_broadcast (the daemon thread), and the *)
(* PUB socket both send on.  Each update of populate_entry_trend is numbered; *)
(* a stored regime or probability map is the number of the update that stored *)
(* it (0: the values of __init__).  A block under broadcast_lock is one step: *)
(* the lock makes the blocks exclude one another.                             *)

MaxUpdates == 3

InitBroadcast ==
    /\ pc = "running"
    /\ row = <<>>
    /\ df = <<>>
    /\ strategy = "RegimeValidation"
    /\ trade = <<>>
    /\ ret = <<>>
    /\ atr_in = <<>>
    /\ df2 = <<>>
    /\ agree = 0
    /\ metadata = <<>>
    /\ fs = <<>>
    /\ merge = <<>>
    /\ executor = <<>>
    /\ oracle = [last_regime_signal |-> 0, last_probabilities |-> 0,
                 last_metadata |-> FALSE, updates |-> 0,
                 strategy_pc |-> "idle",
                 periodic_pc |-> "sleep",
                 regime_signal |-> 0, probabilities |-> 0,
                 metadata |-> FALSE]

\* Lines 353-356: populate_entry_trend stores the three values under the lock.
UpdateLastKnownState ==
    /\ oracle.strategy_pc = "idle"
    /\ oracle.updates < MaxUpdates
    /\ oracle' = [oracle EXCEPT
                    !.updates = @ + 1,
                    !.last_regime_signal = oracle.updates + 1,
                    !.last_probabilities = oracle.updates + 1,
                    !.last_metadata = TRUE,
                    !.strategy_pc = "send"]
    /\ UNCHANGED <<pc, row, df, strategy, trade, ret, atr_in, df2, agree,
                   metadata, fs, merge, executor>>

\* Line 373: populate_entry_trend enters socket.send_json.
ImmediateSendBegin ==
    /\ oracle.strategy_pc = "send"
    /\ oracle' = [oracle EXCEPT !.strategy_pc = "send_json"]
    /\ UNCHANGED <<pc, row, df, strategy, trade, ret, atr_in, df2, agree,
                   metadata, fs, merge, executor>>

\* Lines 373-378: send_json returns, populate_entry_trend returns.
ImmediateSendEnd ==
    /\ oracle.strategy_pc = "send_json"
    /\ oracle' = [oracle EXCEPT !.strategy_pc = "idle"]
    /\ UNCHANGED <<pc, row, df, strategy, trade, ret, atr_in, df2, agree,
                   metadata, fs, merge, executor>>

\* Lines 54-60: after the sleep, the first block under the lock reads the
\* regime and the metadata; without metadata the thread sleeps again.
PeriodicReadRegime ==
    /\ oracle.periodic_pc = "sleep"
    /\ oracle' = [oracle EXCEPT
                    !.regime_signal = oracle.last_regime_signal,
                    !.metadata = oracle.last_metadata,
                    !.periodic_pc =
                        IF oracle.last_metadata THEN "probabilities"
                        ELSE "sleep"]
    /\ UNCHANGED <<pc, row, df, strategy, trade, ret, atr_in, df2, agree,
                   metadata, fs, merge, executor>>

\* Lines 62-75: the second block under the lock copies the probabilities; the
\* message is built from the two reads.
PeriodicReadProbabilities ==
    /\ oracle.periodic_pc = "probabilities"
    /\ oracle' = [oracle EXCEPT
                    !.probabilities = oracle.last_probabilities,
                    !.periodic_pc = "send"]
    /\ UNCHANGED <<pc, row, df, strategy, trade, ret, atr_in, df2, agree,
                   metadata, fs, merge, executor>>

\* Line 78: the periodic thread enters socket.send_json.
PeriodicSendBegin ==
    /\ oracle.periodic_pc = "send"
    /\ oracle' = [oracle EXCEPT !.periodic_pc = "send_json"]
    /\ UNCHANGED <<pc, row, df, strategy, trade, ret, atr_in, df2, agree,
                   metadata, fs, merge, executor>>

\* Lines 78-79: send_json returns, the thread sleeps.
PeriodicSendEnd ==
    /\ oracle.periodic_pc = "send_json"
    /\ oracle' = [oracle EXCEPT !.periodic_pc = "sleep"]
    /\ UNCHANGED <<pc, row, df, strategy, trade, ret, atr_in, df2, agree,
                   metadata, fs, merge, executor>>

NextBroadcast ==
    \/ UpdateLastKnownState
    \/ ImmediateSendBegin
    \/ ImmediateSendEnd
    \/ PeriodicReadRegime
    \/ PeriodicReadProbabilities
    \/ PeriodicSendBegin
    \/ PeriodicSendEnd

SpecBroadcast == InitBroadcast /\ [][NextBroadcast]_vars

\* C27: a message the periodic thread sends carries the regime and the
\* probabilities of one and the same update of populate_entry_trend.
C27_MessageFromOneUpdate ==
    oracle.periodic_pc \in {"send", "send_json"} =>
        oracle.regime_signal = oracle.probabilities

\* C28: the two threads are never inside socket.send_json at the same time.
C28_SocketNotShared ==
    ~(oracle.periodic_pc = "send_json" /\ oracle.strategy_pc = "send_json")

-----------------------------------------------------------------------------
(* Entry and exit signals of the strategies that emit exit signals:          *)
(* RSIStrategy, BollingerRatchet_GMODS_11 and SniperBacktest.  A signal      *)
(* column is 1 where the strategy set it and 0 where it left it unset.       *)
(* volume_ratio is counted in tenths and atr_ratio in thousandths.           *)

rsi_oversold_low == 20
rsi_oversold_high == 35
rsi_overbought_low == 65
rsi_overbought_high == 80
volume_check == TRUE

rsi_oversold == {rsi_oversold_low, 30, rsi_oversold_high}
rsi_overbought == {rsi_overbought_low, 70, rsi_overbought_high}

NoSignals == [enter_long |-> 0, enter_short |-> 0,
              exit_long |-> 0, exit_short |-> 0]

NoColumn == "absent"

(* RSIStrategy *)

RSICandles ==
    [rsi : {NaN, 15, 25, 32, 50, 68, 75, 90},
     rsi_oversold : rsi_oversold, rsi_overbought : rsi_overbought,
     volume_ratio : {NaN, 13},
     close : {100}, bb_lowerband : {NaN, 99}, bb_upperband : {101},
     macd : {1, 2}, macdsignal : {NaN, 1, 2},
     atr_ratio : {40, 50}]

populate_entry_trend_RSIStrategy(c, s) ==
    IF /\ Lt(c.rsi, c.rsi_oversold)
       /\ (volume_check => Gt(c.volume_ratio, 12))
       /\ notna(c.close) /\ notna(c.bb_lowerband)
       /\ c.close * 100 <= c.bb_lowerband * 102
       /\ Gt(c.macd, c.macdsignal)
       /\ Lt(c.atr_ratio, 50)
    THEN [s EXCEPT !.enter_long = 1]
    ELSE s

populate_exit_trend_RSIStrategy(c, s) ==
    IF /\ Gt(c.rsi, c.rsi_overbought)
       /\ notna(c.close) /\ notna(c.bb_upperband)
       /\ c.close * 100 >= c.bb_upperband * 98
       /\ Lt(c.macd, c.macdsignal)
    THEN [s EXCEPT !.exit_long = 1]
    ELSE s

(* BollingerRatchet_GMODS_11 *)

GmodsCandles ==
    [regime_class : Regimes \cup {NoColumn},
     close : {10}, ema : {NaN, 9, 11},
     low : {8, 10}, high : {10, 12},
     bb_lower : {NaN, 9, 11}, bb_upper : {NaN, 9, 11}]

populate_entry_trend_GMODS_11(c, s) ==
    LET oracle_signal == IF c.regime_class # NoColumn THEN c.regime_class
                         ELSE "NEUTRAL"
        long == /\ Gt(c.close, c.ema)
                /\ oracle_signal # "BEAR"
                /\ (Lt(c.low, c.bb_lower) \/ Lt(c.close, c.bb_lower))
        short == /\ Lt(c.close, c.ema)
                 /\ oracle_signal # "BULL"
                 /\ (Gt(c.high, c.bb_upper) \/ Gt(c.close, c.bb_upper))
    IN  [s EXCEPT !.enter_long = IF long THEN 1 ELSE @,
                  !.enter_short = IF short THEN 1 ELSE @]

populate_exit_trend_GMODS_11(c, s) ==
    IF c.regime_class # NoColumn
    THEN [s EXCEPT !.exit_long = IF c.regime_class = "BEAR" THEN 1 ELSE @,
                   !.exit_short = IF c.regime_class = "BULL" THEN 1 ELSE @]
    ELSE s

(* SniperBacktest *)

SniperCandles ==
    [regime_class : Regimes \cup {NoColumn},
     close : {9, 11}, close_shifted : {NaN, 9, 11}, vwma : {NaN, 10},
     rsi : {NaN, 20, 30, 50, 70, 80}]

populate_entry_trend_SniperBacktest(c, s) ==
    IF c.regime_class = NoColumn THEN s
    ELSE
      LET oracle_signal == c.regime_class
          sniper_breakout == Gt(c.close, c.vwma) /\ Lt(c.close_shifted, c.vwma)
          sniper_safe_rsi == Lt(c.rsi, 70)
          long == oracle_signal = "BULL" /\ sniper_breakout /\ sniper_safe_rsi
          short == /\ oracle_signal = "BEAR"
                   /\ Lt(c.close, c.vwma)
                   /\ Gt(c.close_shifted, c.vwma)
      IN  [s EXCEPT !.enter_long = IF long THEN 1 ELSE @,
                    !.enter_short = IF short THEN 1 ELSE @]

populate_exit_trend_SniperBacktest(c, s) ==
    [s EXCEPT !.exit_long = IF Gt(c.rsi, 70) THEN 1 ELSE @,
              !.exit_short = IF Lt(c.rsi, 30) THEN 1 ELSE @]

SignalStrategies == {"RSIStrategy", "BollingerRatchet_GMODS_11",
                     "SniperBacktest"}

SignalCandles(s) ==
    CASE s = "RSIStrategy" -> RSICandles
      [] s = "BollingerRatchet_GMODS_11" -> GmodsCandles
      [] s = "SniperBacktest" -> SniperCandles

populate_entry_trend_of(s, c, sig) ==
    CASE s = "RSIStrategy" -> populate_entry_trend_RSIStrategy(c, sig)
      [] s = "BollingerRatchet_GMODS_11" -> populate_entry_trend_GMODS_11(c, sig)
      [] s = "SniperBacktest" -> populate_entry_trend_SniperBacktest(c, sig)

populate_exit_trend_of(s, c, sig) ==
    CASE s = "RSIStrategy" -> populate_exit_trend_RSIStrategy(c, sig)
      [] s = "BollingerRatchet_GMODS_11" -> populate_exit_trend_GMODS_11(c, sig)
      [] s = "SniperBacktest" -> populate_exit_trend_SniperBacktest(c, sig)

\* The candle after populate_indicators, no signal column written yet.
InitSignals ==
    /\ pc = "indicators"
    /\ strategy \in SignalStrategies
    /\ row \in SignalCandles(strategy)
    /\ ret = NoSignals
    /\ df = <<>>
    /\ trade = <<>>
    /\ atr_in = <<>>
    /\ df2 = <<>>
    /\ agree = 0
    /\ metadata = <<>>
    /\ fs = <<>>
    /\ merge = <<>>
    /\ executor = <<>>
    /\ oracle = <<>>

SignalsEntryTrend ==
    /\ pc = "indicators"
    /\ ret' = populate_entry_trend_of(strategy, row, ret)
    /\ pc' = "entry"
    /\ UNCHANGED <<row, df, strategy, trade, atr_in, df2, agree, metadata,
                   fs, merge, executor, oracle>>

SignalsExitTrend ==
    /\ pc = "entry"
    /\ ret' = populate_exit_trend_of(strategy, row, ret)
    /\ pc' = "exit"
    /\ UNCHANGED <<row, df, strategy, trade, atr_in, df2, agree, metadata,
                   fs, merge, executor, oracle>>

NextSignals == SignalsEntryTrend \/ SignalsExitTrend

SpecSignals == InitSignals /\ [][NextSignals]_vars

\* C29: after populate_entry_trend and populate_exit_trend no candle carries
\* the entry signal and the exit signal of the same side.
C29_NoEntryWithExit ==
    pc = "exit" =>
        /\ ~(ret.enter_long = 1 /\ ret.exit_long = 1)
        /\ ~(ret.enter_short = 1 /\ ret.exit_short = 1)

-----------------------------------------------------------------------------
(* merge_trades_with_oracle: the regime change of a trade                    *)

\* The change computed from the keys the trade's own two lookups wrote.
OwnRegimeChange(r) ==
    IF r.entry.kind = "dict" /\ r.exit.kind = "dict"
    THEN [kind |-> "value",
          oracle_regime_changed |->
              r.entry.oracle_regime # r.exit.oracle_regime,
          oracle_regime_change |->
              <<r.entry.oracle_regime, r.exit.oracle_regime>>]
    ELSE [kind |-> "None"]

\* C30: oracle_regime_changed and oracle_regime_change of every merged trade
\* come from that trade's own entry and exit predictions, so a trade without
\* a valid entry_time or exit_time has None for both, and the call does not
\* raise on such a trade.
C30_OwnPredictionsOnly ==
    /\ \A k \in 1..Len(merge.merged_rows) :
        merge.merged_rows[k].change = OwnRegimeChange(merge.merged_rows[k])
    /\ merge.raised # "no" =>
        /\ notna(merge.trades_df[merge.i].entry_time)
        /\ notna(merge.trades_df[merge.i].exit_time)

====
